---- MODULE Spec2Model ----
(***************************************************************************)
(* Shallow-water solver SWE of src/bathtub.js: constructor, F, G, step,    *)
(* addtoU, drop and plip.                                                  *)
(*                                                                         *)
(* JS Numbers are modelled as pairs <<n, d>>:                              *)
(*   d > 0            the rational n/d in lowest terms                     *)
(*   <<1,0>> <<-1,0>> +Infinity and -Infinity                              *)
(*   <<0,0>>          NaN                                                  *)
(*   <<0,-1>>         a real number that the model cannot represent        *)
(*                    (only under real arithmetic, exact = TRUE)           *)
(* A result is kept exactly when its numerator and denominator fit         *)
(* MaxNum and MaxDen.  Under finite precision (exact = FALSE) a result     *)
(* that does not fit is rounded to the nearest multiple of 2^-FracBits     *)
(* and overflows to an infinity beyond MaxMag, as a double does at its     *)
(* own precision and range.  The sign of zero is not modelled.             *)
(***************************************************************************)
EXTENDS Integers, Sequences, FiniteSets, TLC

\* QUANT, LENGTH, dd, g, U: the fields of the SWE instance
\* U_lax_horizontal, U_lax_vertical: the two arrays the last step built
\* op: the last call and its arguments; U_old: the grid when it was made
\* exact: real arithmetic (TRUE) or finite precision (FALSE)
\* the page that drives the instance (CanvasBathtub):
\* id: self.id; pending: the animation-frame requests or interval timers that
\* are outstanding; issued: how many the browser has handed out; outside: calls
\* of loop() from outside; ev: the last callback the browser ran; atPlip: the
\* requests or timers outstanding when it called plip; trace: what the last
\* call printed before console.trace()
\* delegate: whether the system has a delegate (part_003, part_004); calls:
\* the calls of updateHeightAt(x, y, height) the last call made, in order
VARIABLES QUANT, LENGTH, dd, g, U,
          U_lax_horizontal, U_lax_vertical,
          op, U_old, exact, nsteps, nplips,
          id, pending, issued, outside, ev, atPlip, trace,
          delegate, calls,
          running, state, width, height, generation

\* running: the flag of the CanvasBathtub of part_004; state, width, height,
\* generation: the fields of a RuleOneTen or of a Conway (part_004)
automaton == <<state, width, height, generation>>

page == <<id, pending, issued, outside, ev, atPlip, trace, delegate, calls,
          running, automaton>>

vars == <<QUANT, LENGTH, dd, g, U, U_lax_horizontal, U_lax_vertical,
          op, U_old, exact, nsteps, nplips,
          id, pending, issued, outside, ev, atPlip, trace, delegate, calls,
          running, state, width, height, generation>>

(* ----------------------------- bounds ---------------------------------- *)
MaxNum == 30000
MaxDen == 30000
FracBits == 4
MaxQ == 4
MaxSteps == 2
MaxPlips == 1

(* ------------------------- number arithmetic --------------------------- *)
NaN == <<0, 0>>
PInf == <<1, 0>>
NInf == <<-1, 0>>
Unrep == <<0, -1>>

IsNaN(x) == x = NaN
IsInf(x) == x = PInf \/ x = NInf
IsFinite(x) == x[2] > 0

Abs(n) == IF n < 0 THEN -n ELSE n
Sgn(n) == IF n < 0 THEN -1 ELSE IF n > 0 THEN 1 ELSE 0

RECURSIVE GCD(_, _)
GCD(a, b) == IF b = 0 THEN a ELSE GCD(b, a % b)

RECURSIVE Pow2(_)
Pow2(k) == IF k = 0 THEN 1 ELSE 2 * Pow2(k - 1)

RoundScale == Pow2(FracBits)
MaxMag == MaxNum \div RoundScale

\* lowest terms of n/d, d > 0
Norm(n, d) == LET c == GCD(Abs(n), d) IN <<n \div c, d \div c>>

\* floor(r * 2^k / d) for 0 <= r < d, by binary long division
RECURSIVE FracDigits(_, _, _)
FracDigits(r, d, k) ==
    IF k = 0 THEN 0
    ELSE LET r2 == 2 * r
             bit == IF r2 >= d THEN 1 ELSE 0
         IN bit * Pow2(k - 1) + FracDigits(r2 - bit * d, d, k - 1)

\* n/d (d > 0) rounded to the nearest multiple of 2^-FracBits, ties away
\* from zero; beyond MaxMag the result is an infinity
RoundToGrid(n, d) ==
    LET a == Abs(n)
        q == a \div d
        f2 == FracDigits(a % d, d, FracBits + 1)
        m == q * RoundScale + ((f2 + 1) \div 2)
    IN IF q >= MaxMag THEN <<Sgn(n), 0>>
       ELSE Norm(Sgn(n) * m, RoundScale)

\* the Number that stands for the real n/d, d > 0
Fit(n, d) ==
    LET x == Norm(n, d)
    IN IF Abs(x[1]) <= MaxNum /\ x[2] <= MaxDen
          /\ (exact \/ Abs(x[1]) <= MaxMag * x[2])
       THEN x
       ELSE IF exact THEN Unrep ELSE RoundToGrid(x[1], x[2])

Num(n) == <<n, 1>>
Rat(n, d) == Norm(n, d)
ZERO == Num(0)
HALF == Rat(1, 2)
TWO == Num(2)

Neg(x) == <<-x[1], x[2]>>

Add(x, y) ==
    IF x = Unrep \/ y = Unrep THEN Unrep
    ELSE IF IsNaN(x) \/ IsNaN(y) THEN NaN
    ELSE IF IsInf(x) THEN (IF IsInf(y) /\ y # x THEN NaN ELSE x)
    ELSE IF IsInf(y) THEN y
    ELSE Fit(x[1] * y[2] + y[1] * x[2], x[2] * y[2])

Sub(x, y) == IF y = Unrep THEN Unrep ELSE Add(x, Neg(y))

Mul(x, y) ==
    IF x = Unrep \/ y = Unrep THEN Unrep
    ELSE IF IsNaN(x) \/ IsNaN(y) THEN NaN
    ELSE IF IsInf(x) \/ IsInf(y)
         THEN <<Sgn(x[1]) * Sgn(y[1]), 0>>
    ELSE Fit(x[1] * y[1], x[2] * y[2])

Div(x, y) ==
    IF x = Unrep \/ y = Unrep THEN Unrep
    ELSE IF IsNaN(x) \/ IsNaN(y) THEN NaN
    ELSE IF IsInf(x)
         THEN (IF IsInf(y) THEN NaN
               ELSE <<Sgn(x[1]) * (IF y[1] < 0 THEN -1 ELSE 1), 0>>)
    ELSE IF IsInf(y) THEN ZERO
    ELSE IF y[1] = 0 THEN <<Sgn(x[1]), 0>>
    ELSE Fit(Sgn(y[1]) * x[1] * y[2], x[2] * Abs(y[1]))

(* ------------------------------ SWE ----------------------------------- *)
Undef == <<"undefined">>

Cell(a, b, c) == (0 :> a) @@ (1 :> b) @@ (2 :> c)

\* helpers of step
addthree(a, b) == Cell(Add(a[0], b[0]), Add(a[1], b[1]), Add(a[2], b[2]))
subthree(a, b) == Cell(Sub(a[0], b[0]), Sub(a[1], b[1]), Sub(a[2], b[2]))
scalethree(a, vec) == Cell(Mul(a, vec[0]), Mul(a, vec[1]), Mul(a, vec[2]))

\* flux in x of the state triple U_xy, with gravity gg
FluxF(U_xy, gg) ==
    LET _hf == U_xy[0]
        _uf == Div(U_xy[1], _hf)
    IN Cell(U_xy[1],
            Add(Mul(U_xy[1], _uf), Mul(Mul(Mul(gg, _hf), _hf), HALF)),
            Mul(U_xy[2], _uf))

\* flux in y of the state triple U_xy, with gravity gg
FluxG(U_xy, gg) ==
    LET _hg == U_xy[0]
        _vg == Div(U_xy[2], _hg)
    IN Cell(U_xy[2],
            Mul(U_xy[1], _vg),
            Add(Mul(U_xy[2], _vg), Mul(Mul(Mul(gg, _hg), _hg), HALF)))

\* variant: G is the flux in x
G_IsF(U_xy) == FluxF(U_xy, g)

F(U_xy) == FluxF(U_xy, g)
G(U_xy) == FluxG(U_xy, g)

heightAt(x, y) == U[x][y][0]

\* variant: a face on the domain edge is half its boundary cell, as if the
\* missing neighbour were empty
LaxHorizontal_EdgeHalf(step_factor) ==
    [ih \in 0..QUANT |-> [jh \in 0..(QUANT - 1) |->
        LET uhlo == IF ih = 0 THEN U[ih][jh] ELSE U[ih - 1][jh]
            uhhi == IF ih = 0 THEN U[ih][jh]
                    ELSE IF ih = QUANT THEN U[ih - 1][jh] ELSE U[ih][jh]
            lax == IF ih = 0 \/ ih = QUANT
                   THEN scalethree(HALF, uhlo)
                   ELSE subthree(scalethree(HALF, addthree(uhhi, uhlo)),
                                 scalethree(step_factor,
                                            subthree(F(uhhi), F(uhlo))))
        IN Cell(lax[0],
                IF jh = 0 \/ jh = QUANT - 1 THEN ZERO ELSE lax[1],
                IF ih = 0 \/ ih = QUANT THEN ZERO ELSE lax[2])]]

\* STEP 1, horizontal midpoints: (QUANT+1) x QUANT
LaxHorizontal(step_factor) ==
    [ih \in 0..QUANT |-> [jh \in 0..(QUANT - 1) |->
        LET uhlo == IF ih = 0 THEN U[ih][jh] ELSE U[ih - 1][jh]
            uhhi == IF ih = 0 THEN U[ih][jh]
                    ELSE IF ih = QUANT THEN U[ih - 1][jh] ELSE U[ih][jh]
            lax == subthree(scalethree(HALF, addthree(uhhi, uhlo)),
                            scalethree(step_factor,
                                       subthree(F(uhhi), F(uhlo))))
        IN Cell(lax[0],
                IF jh = 0 \/ jh = QUANT - 1 THEN ZERO ELSE lax[1],
                IF ih = 0 \/ ih = QUANT THEN ZERO ELSE lax[2])]]

\* variant: the vertical faces are corrected with the flux F
LaxVertical_UsesF(step_factor) ==
    [iv \in 0..(QUANT - 1) |-> [jv \in 0..QUANT |->
        LET uvlo == IF jv = 0 THEN U[iv][jv] ELSE U[iv][jv - 1]
            uvhi == IF jv = 0 THEN U[iv][jv]
                    ELSE IF jv = QUANT THEN U[iv][jv - 1] ELSE U[iv][jv]
            lax == subthree(scalethree(HALF, addthree(uvhi, uvlo)),
                            scalethree(step_factor,
                                       subthree(F(uvhi), F(uvlo))))
        IN Cell(lax[0],
                IF jv = 0 \/ jv = QUANT THEN ZERO ELSE lax[1],
                IF iv = 0 \/ iv = QUANT - 1 THEN ZERO ELSE lax[2])]]

\* variant: the faces on the domain edge of the horizontal array are the
\* boundary cells themselves, so that zeroing their third component writes to
\* the grid that the vertical pass reads
LaxVertical_ReadsZeroed(step_factor) ==
    [iv \in 0..(QUANT - 1) |-> [jv \in 0..QUANT |->
        LET Seen(c) == IF iv = 0 \/ iv = QUANT - 1
                       THEN Cell(c[0], c[1], ZERO) ELSE c
            uvlo == Seen(IF jv = 0 THEN U[iv][jv] ELSE U[iv][jv - 1])
            uvhi == Seen(IF jv = 0 THEN U[iv][jv]
                         ELSE IF jv = QUANT THEN U[iv][jv - 1] ELSE U[iv][jv])
            lax == subthree(scalethree(HALF, addthree(uvhi, uvlo)),
                            scalethree(step_factor,
                                       subthree(G(uvhi), G(uvlo))))
        IN Cell(lax[0],
                IF jv = 0 \/ jv = QUANT THEN ZERO ELSE lax[1],
                IF iv = 0 \/ iv = QUANT - 1 THEN ZERO ELSE lax[2])]]

\* STEP 1, vertical midpoints: QUANT x (QUANT+1)
LaxVertical(step_factor) ==
    [iv \in 0..(QUANT - 1) |-> [jv \in 0..QUANT |->
        LET uvlo == IF jv = 0 THEN U[iv][jv] ELSE U[iv][jv - 1]
            uvhi == IF jv = 0 THEN U[iv][jv]
                    ELSE IF jv = QUANT THEN U[iv][jv - 1] ELSE U[iv][jv]
            lax == subthree(scalethree(HALF, addthree(uvhi, uvlo)),
                            scalethree(step_factor,
                                       subthree(G(uvhi), G(uvlo))))
        IN Cell(lax[0],
                IF jv = 0 \/ jv = QUANT THEN ZERO ELSE lax[1],
                IF iv = 0 \/ iv = QUANT - 1 THEN ZERO ELSE lax[2])]]

\* variant: Step 2 updates the interior cells only
UNext_InteriorOnly(next_factor, H, V) ==
    [i \in 0..(QUANT - 1) |-> [j \in 0..(QUANT - 1) |->
        IF i = 0 \/ j = 0 \/ i = QUANT - 1 \/ j = QUANT - 1
        THEN U[i][j]
        ELSE subthree(U[i][j],
                 scalethree(next_factor,
                            addthree(subthree(F(H[i + 1][j]), F(H[i][j])),
                                     subthree(G(V[i][j + 1]), G(V[i][j])))))]]

\* variant: Step 2 stops one row short
UNext_DropsLastRow(next_factor, H, V) ==
    [i \in 0..(QUANT - 2) |-> [j \in 0..(QUANT - 1) |->
        subthree(U[i][j],
                 scalethree(next_factor,
                            addthree(subthree(F(H[i + 1][j]), F(H[i][j])),
                                     subthree(G(V[i][j + 1]), G(V[i][j])))))]]

\* Step 2: the new grid from the old one and the two midpoint arrays
UNext(next_factor, H, V) ==
    [i \in 0..(QUANT - 1) |-> [j \in 0..(QUANT - 1) |->
        subthree(U[i][j],
                 scalethree(next_factor,
                            addthree(subthree(F(H[i + 1][j]), F(H[i][j])),
                                     subthree(G(V[i][j + 1]), G(V[i][j])))))]]

\* Math.exp at the argument -d2, d2 a natural number: e^-d2 to six binary
\* places; it underflows to 0 from d2 = Len(ExpTable) on (a double does so
\* from d2 = 746 on)
ExpScale == 64
ExpTable == <<64, 24, 9, 3, 1>>
MathExpNeg(d2) == IF d2 < Len(ExpTable) THEN Rat(ExpTable[d2 + 1], ExpScale)
                  ELSE ZERO

amplitude == 5

\* variant: the drop depends on the distance along x only
drop_IgnoresY(x, y, i, j) ==
    Mul(Num(amplitude), MathExpNeg((x - i) * (x - i)))

drop(x, y, i, j) ==
    Mul(Num(amplitude), MathExpNeg((x - i) * (x - i) + (y - j) * (y - j)))

\* variant: the momentum is left as it was
addtoU_MomentumConstant(a, c) == Cell(Add(c[0], a), c[1], c[2])

\* variant: the drop lands on half the old height
addtoU_Damped(a, c) ==
    LET u1 == Div(c[1], c[0])
        u2 == Div(c[2], c[0])
        h == Add(Mul(c[0], HALF), a)
    IN Cell(h, Mul(u1, h), Mul(u2, h))

\* addtoU(a, i, j) on the cell c = U[i][j]
addtoU(a, c) ==
    LET u1 == Div(c[1], c[0])
        u2 == Div(c[2], c[0])
        h == Add(c[0], a)
    IN Cell(h, Mul(u1, h), Mul(u2, h))

\* variant: the last row of the grid is not reached
Plipped_SkipsLastRow(i, j) ==
    [p \in 0..(QUANT - 1) |-> [q \in 0..(QUANT - 1) |->
        IF p = QUANT - 1 THEN U[p][q] ELSE addtoU(drop(p, q, i, j), U[p][q])]]

\* plip(i, j) when this.U is the grid UU
PlipOn(UU, i, j) ==
    [p \in 0..(QUANT - 1) |-> [q \in 0..(QUANT - 1) |->
        addtoU(drop(p, q, i, j), UU[p][q])]]

\* the grid after plip(i, j)
Plipped(i, j) == PlipOn(U, i, j)

(* --------------------------- constructor ------------------------------- *)
\* gravity when the caller passes none
DefaultG == Rat(-9807, 1000)
DefaultLength == 10

Idx(n) == 0..(n - 1)
Uniform(n, x) == [i \in Idx(n) |-> [j \in Idx(n) |-> x]]
\* a velocity field that is x inside the grid and 0 on its rim
Inside(n, x) ==
    [i \in Idx(n) |-> [j \in Idx(n) |->
        IF i = 0 \/ j = 0 \/ i = n - 1 \/ j = n - 1 THEN ZERO ELSE x]]

\* a[i][j] as a factor of a product: an element that the row a[i] lacks is
\* undefined, and a product with undefined is NaN
Elem(a, i, j) == IF j \in DOMAIN a[i] THEN a[i][j] ELSE NaN

\* variant: the cells store the velocities, not the momenta
NewU_StoresVelocity(QUANTarg, n_o, u_o, v_o) ==
    LET n == IF n_o = Undef THEN Uniform(QUANTarg, Num(1)) ELSE n_o
        u == IF u_o = Undef
             THEN [i \in DOMAIN n |-> [j \in DOMAIN n[i] |-> ZERO]] ELSE u_o
        v == IF v_o = Undef
             THEN [i \in DOMAIN n |-> [j \in DOMAIN n[i] |-> ZERO]] ELSE v_o
    IN [_ii \in Idx(QUANTarg) |-> [_jj \in Idx(QUANTarg) |->
           Cell(n[_ii][_jj], Elem(u, _ii, _jj), Elem(v, _ii, _jj))]]

\* the grid this.U that SWE(QUANTarg, _, n_o, u_o, v_o, _) builds
NewU(QUANTarg, n_o, u_o, v_o) ==
    LET n == IF n_o = Undef THEN Uniform(QUANTarg, Num(1)) ELSE n_o
        u == IF u_o = Undef
             THEN [i \in DOMAIN n |-> [j \in DOMAIN n[i] |-> ZERO]] ELSE u_o
        v == IF v_o = Undef
             THEN [i \in DOMAIN n |-> [j \in DOMAIN n[i] |-> ZERO]] ELSE v_o
    IN [_ii \in Idx(QUANTarg) |-> [_jj \in Idx(QUANTarg) |->
           LET h == n[_ii][_jj]
           IN Cell(h, Mul(h, Elem(u, _ii, _jj)), Mul(h, Elem(v, _ii, _jj)))]]

\* arguments the model constructs SWE with: <<LENGTH, n_o, u_o, v_o, g>>
QuantArgs == 1..MaxQ
ConstructorArgs(q) ==
    { <<Undef, Undef, Undef, Undef, Undef>>,
      <<Undef, Undef, Undef, Undef, Num(2)>>,
      <<Num(q), Uniform(q, Num(2)), Inside(q, HALF), Undef, Num(2)>>,
      <<Num(2 * q), Uniform(q, Num(2)), Inside(q, HALF), Inside(q, Num(-1)),
        Undef>> }
DtArgs == {Rat(1, 4), Rat(1, 2)}
\* the points of a QUANT = q grid that the model plips at
PlipArgs(q) ==
    {a \in {<<0, 0>>, <<1, 1>>, <<2, 2>>, <<0, 1>>} : a[1] < q /\ a[2] < q}

\* op: the last call, its arguments and what it returned ("object" for the
\* new instance, "true", "number", "undefined", or "throw" when it raised an
\* error)
\* args: what the constructor was called with
NoCall == [name |-> "new", dt |-> ZERO, i |-> 0, j |-> 0, ret |-> "object",
           args |-> << >>]

\* QUANT || 100; an omitted QUANT is modelled as the argument 0
DefaultQuant == 100

Construct(QUANTarg, LENGTHarg, n_o, u_o, v_o, garg) ==
    /\ QUANT = IF QUANTarg = 0 THEN DefaultQuant ELSE QUANTarg
    /\ LENGTH = IF LENGTHarg = Undef THEN Num(DefaultLength) ELSE LENGTHarg
    /\ dd = Div(LENGTH, Num(QUANT))
    /\ U = NewU(QUANTarg, n_o, u_o, v_o)
    /\ g = IF garg = Undef THEN DefaultG ELSE garg
    /\ U_lax_horizontal = << >>
    /\ U_lax_vertical = << >>
    /\ op = [NoCall EXCEPT
                !.args = <<QUANTarg, LENGTHarg, n_o, u_o, v_o, garg>>]
    /\ U_old = U
    /\ nsteps = 0
    /\ nplips = 0

\* no page: nothing requested, nothing printed
NoPage ==
    /\ id = Undef /\ pending = {} /\ issued = 0 /\ outside = 0
    /\ ev = "none" /\ atPlip = {} /\ trace = << >>
    /\ calls = << >>
    /\ running = Undef
    /\ state = << >> /\ width = 0 /\ height = 0 /\ generation = 0

InitArgs ==
    \E q \in QuantArgs : \E a \in ConstructorArgs(q) :
        Construct(q, a[1], a[2], a[3], a[4], a[5])

\* finite-precision arithmetic
Init == exact = FALSE /\ InitArgs /\ NoPage /\ delegate = FALSE
\* real arithmetic
InitReal == exact = TRUE /\ InitArgs /\ NoPage /\ delegate = FALSE

(* ------------------------------ calls --------------------------------- *)
Step(dt) ==
    /\ nsteps < MaxSteps
    /\ LET step_factor == Div(Mul(dt, HALF), dd)
           H == LaxHorizontal(step_factor)
           V == LaxVertical(step_factor)
           next_factor == Mul(step_factor, TWO)
       IN /\ U_lax_horizontal' = H
          /\ U_lax_vertical' = V
          /\ U' = UNext(next_factor, H, V)
    /\ op' = [name |-> "step", dt |-> dt, i |-> 0, j |-> 0, ret |-> "true",
              args |-> << >>]
    /\ U_old' = U
    /\ nsteps' = nsteps + 1
    /\ UNCHANGED <<QUANT, LENGTH, dd, g, exact, nplips>>

Plip(i, j) ==
    /\ nplips < MaxPlips
    /\ U' = Plipped(i, j)
    /\ op' = [name |-> "plip", dt |-> ZERO, i |-> i, j |-> j, ret |-> "true",
              args |-> << >>]
    /\ U_old' = U
    /\ nplips' = nplips + 1
    /\ UNCHANGED <<QUANT, LENGTH, dd, g, exact, nsteps,
                   U_lax_horizontal, U_lax_vertical>>

Next ==
    \/ \E dt \in DtArgs : Step(dt) /\ UNCHANGED page
    \/ \E a \in PlipArgs(QUANT) : Plip(a[1], a[2]) /\ UNCHANGED page

Spec == Init /\ [][Next]_vars
SpecReal == InitReal /\ [][Next]_vars

(* ----------------------- grids already in motion ---------------------- *)
\* a velocity field that is x in the cells of row 0 and 0 elsewhere
Inflow(n, x) == [i \in Idx(n) |-> [j \in Idx(n) |-> IF i = 0 THEN x ELSE ZERO]]
\* new SWE(q, q, n_o, u_o, v_o, 2) with a level n_o and velocities u_o, v_o
\* that vanish in the cells at the walls (the first) or do not
MovingArgs(q) ==
    { <<Inside(q, HALF), Uniform(q, ZERO)>>,
      <<Uniform(q, HALF), Uniform(q, Num(-1))>>,
      <<Inflow(q, HALF), Uniform(q, ZERO)>>,
      <<Inflow(q, Num(-1)), Inflow(q, HALF)>> }
InitMoving ==
    /\ exact = TRUE
    /\ \E q \in QuantArgs : \E a \in MovingArgs(q) :
          Construct(q, Num(q), Uniform(q, Num(2)), a[1], a[2], Num(2))
    /\ NoPage /\ delegate = FALSE
SpecMoving == InitMoving /\ [][Next]_vars

(* ------------------ the indices that step reads ----------------------- *)
\* the cells <<row, column>> of this.U that step reads: in the loop over
\* (ih, jh), in the loop over (iv, jv), and in the loop over (i, j) of Step 2
GridReads(q) ==
    { <<IF ih = 0 THEN ih ELSE ih - 1, jh>> : ih \in 0..q, jh \in 0..(q - 1) }
    \cup { <<ih, jh>> : ih \in 1..(q - 1), jh \in 0..(q - 1) }
    \cup { <<iv, IF jv = 0 THEN jv ELSE jv - 1>> :
             iv \in 0..(q - 1), jv \in 0..q }
    \cup { <<iv, jv>> : iv \in 0..(q - 1), jv \in 1..(q - 1) }
    \cup { <<i, j>> : i \in 0..(q - 1), j \in 0..(q - 1) }

\* variant: Step 2 reads the faces i + 1 and i + 2
HorizontalReads_Shifted(q) ==
    { <<i + 2, j>> : i \in 0..(q - 1), j \in 0..(q - 1) }
    \cup { <<i + 1, j>> : i \in 0..(q - 1), j \in 0..(q - 1) }

\* the faces of U_lax_horizontal that Step 2 reads: [i+1][j] and [i][j]
HorizontalReads(q) ==
    { <<i + 1, j>> : i \in 0..(q - 1), j \in 0..(q - 1) }
    \cup { <<i, j>> : i \in 0..(q - 1), j \in 0..(q - 1) }

\* the faces of U_lax_vertical that Step 2 reads: [i][j+1] and [i][j]
VerticalReads(q) ==
    { <<i, j + 1>> : i \in 0..(q - 1), j \in 0..(q - 1) }
    \cup { <<i, j>> : i \in 0..(q - 1), j \in 0..(q - 1) }

(* ----------------------- the flux functions alone --------------------- *)
\* system.F(system.U[i][j]) and system.G(system.U[i][j]): the call returns a
\* new array (args: what it returned) and assigns to nothing else
CallF(i, j) ==
    /\ op' = [name |-> "F", dt |-> ZERO, i |-> i, j |-> j, ret |-> "array",
              args |-> <<F(U[i][j])>>]
    /\ U_old' = U
    /\ UNCHANGED <<QUANT, LENGTH, dd, g, U, exact, nsteps, nplips,
                   U_lax_horizontal, U_lax_vertical>>
    /\ UNCHANGED page

CallG(i, j) ==
    /\ op' = [name |-> "G", dt |-> ZERO, i |-> i, j |-> j, ret |-> "array",
              args |-> <<G(U[i][j])>>]
    /\ U_old' = U
    /\ UNCHANGED <<QUANT, LENGTH, dd, g, U, exact, nsteps, nplips,
                   U_lax_horizontal, U_lax_vertical>>
    /\ UNCHANGED page

NextFlux ==
    \/ \E a \in PlipArgs(QUANT) : Plip(a[1], a[2]) /\ UNCHANGED page
    \/ \E i \in Idx(QUANT), j \in Idx(QUANT) : CallF(i, j)
    \/ \E i \in Idx(QUANT), j \in Idx(QUANT) : CallG(i, j)

\* the fluxes of the cells of constructed and perturbed grids, real arithmetic
SpecFlux == InitReal /\ [][NextFlux]_vars

(* ---------------- malformed arguments and coordinates ------------------ *)
\* the constructor reads row _ii of n_o, u_o and v_o for every _ii < QUANT;
\* a row that is missing is undefined and indexing it is a TypeError
ConstructThrows(QUANTarg, n_o, u_o, v_o) ==
    \E _ii \in Idx(QUANTarg) :
        \/ n_o # Undef /\ _ii \notin DOMAIN n_o
        \/ u_o # Undef /\ _ii \notin DOMAIN u_o
        \/ v_o # Undef /\ _ii \notin DOMAIN v_o

\* new SWE(...) raised an error: there is no instance
NoInstance(QUANTarg, LENGTHarg, n_o, u_o, v_o, garg) ==
    /\ QUANT = 0 /\ LENGTH = Undef /\ dd = Undef /\ g = Undef
    /\ U = << >> /\ U_old = << >>
    /\ U_lax_horizontal = << >> /\ U_lax_vertical = << >>
    /\ op = [NoCall EXCEPT
                !.ret = "throw",
                !.args = <<QUANTarg, LENGTHarg, n_o, u_o, v_o, garg>>]
    /\ nsteps = 0 /\ nplips = 0

\* rows of the given width, one array per number of rows
Rows(rows, cols, x) == [i \in Idx(rows) |-> [j \in Idx(cols) |-> x]]

\* arguments <<QUANT, n_o, u_o, v_o>>, well-formed and not
AnyConstructorArgs ==
    { <<q, a[1], a[2], a[3]>> :
        q \in {-1, 0, 2, 3},
        a \in { <<Undef, Undef, Undef>>,
                <<Rows(2, 2, Num(2)), Undef, Undef>>,
                <<Rows(3, 3, Num(2)), Rows(2, 2, HALF), Undef>>,
                <<Rows(3, 3, Num(2)), Rows(3, 3, HALF), Rows(3, 2, HALF)>> } }

InitAny ==
    /\ exact = FALSE
    /\ NoPage
    /\ delegate = FALSE
    /\ \E a \in AnyConstructorArgs :
          IF ConstructThrows(a[1], a[2], a[3], a[4])
          THEN NoInstance(a[1], Undef, a[2], a[3], a[4], Num(2))
          ELSE Construct(a[1], Undef, a[2], a[3], a[4], Num(2))

\* some cell that plip visits does not exist
CellMissing ==
    \E p \in Idx(QUANT) :
        p \notin DOMAIN U \/ \E q \in Idx(QUANT) : q \notin DOMAIN U[p]

\* heightAt(x, y): this.U[x][y][0]; reading an index of undefined is a TypeError
HeightAt(x, y) ==
    /\ op.ret # "throw" \/ op.name # "new"
    /\ op' = [name |-> "heightAt", dt |-> ZERO, i |-> x, j |-> y,
              ret |-> IF x \in DOMAIN U /\ y \in DOMAIN U[x]
                      THEN "number" ELSE "throw",
              args |-> << >>]
    /\ U_old' = U
    /\ UNCHANGED <<QUANT, LENGTH, dd, g, U, exact, nsteps, nplips,
                   U_lax_horizontal, U_lax_vertical>>
    /\ UNCHANGED page

\* plip(i, j) on an instance whose grid lacks the first cell plip visits:
\* addtoU raises a TypeError before it has written anything
PlipThrows(i, j) ==
    /\ op.ret # "throw" \/ op.name # "new"
    /\ nplips < MaxPlips
    /\ QUANT > 0 /\ U = << >>
    /\ op' = [name |-> "plip", dt |-> ZERO, i |-> i, j |-> j, ret |-> "throw",
              args |-> << >>]
    /\ U_old' = U
    /\ nplips' = nplips + 1
    /\ UNCHANGED <<QUANT, LENGTH, dd, g, U, exact, nsteps,
                   U_lax_horizontal, U_lax_vertical>>
    /\ UNCHANGED page

\* coordinates inside and outside the grid
AnyCoords == {-1, 0, 1, 2, 3}

NextAny ==
    \/ \E x \in AnyCoords, y \in AnyCoords : HeightAt(x, y)
    \/ \E i \in AnyCoords, j \in {-1, 1, 3} :
          /\ op.ret # "throw" \/ op.name # "new"
          /\ ~CellMissing
          /\ Plip(i, j)
          /\ UNCHANGED page
    \/ \E i \in AnyCoords, j \in {-1, 1, 3} : PlipThrows(i, j)

\* the constructor, heightAt and plip on arguments of any kind
SpecAny == InitAny /\ [][NextAny]_vars

(* ------------- the variant of src/unnamed/part_001 -------------------- *)
\* the grid is three arrays n, u, v; the cell U[i][j] holds
\* <<n[i][j], u[i][j], v[i][j]>>, velocities and not momenta

\* the value of a variable that is assigned once: the element of a set of one
Val(S) == CHOOSE x \in S : TRUE

\* this.U(x, y): the conserved vector of the cell nearest to (x, y)
U_001(UU, x, y) ==
    LET xc == IF x < 0 THEN 0 ELSE IF x >= QUANT THEN QUANT - 1 ELSE x
        yc == IF y < 0 THEN 0 ELSE IF y >= QUANT THEN QUANT - 1 ELSE y
    IN Val({ Cell(c[0], Mul(c[0], c[1]), Mul(c[0], c[2])) :
               c \in {UU[xc][yc]} })

F_001(U_xy) ==
    Val({ Cell(Mul(a[0], a[1]),
               Add(Mul(Mul(a[0], a[1]), a[1]),
                   Div(Mul(Mul(g, a[0]), a[0]), TWO)),
               Mul(Mul(a[0], a[1]), a[2])) : a \in {U_xy} })

G_001(U_xy) ==
    Val({ Cell(Mul(a[0], a[2]),
               Mul(Mul(a[0], a[1]), a[2]),
               Add(Mul(Mul(a[0], a[2]), a[2]),
                   Div(Mul(Mul(g, a[0]), a[0]), TWO))) : a \in {U_xy} })

\* (hi + lo) * 0.5 - (dt / (2 * dd)) * (fhi - flo), component by component
half_001(uhi, ulo, fhi, flo, dt) ==
    Val({ Cell(Sub(Mul(Add(uhi[0], ulo[0]), HALF), Mul(c, Sub(fhi[0], flo[0]))),
               Sub(Mul(Add(uhi[1], ulo[1]), HALF), Mul(c, Sub(fhi[1], flo[1]))),
               Sub(Mul(Add(uhi[2], ulo[2]), HALF), Mul(c, Sub(fhi[2], flo[2]))))
          : c \in {Div(dt, Mul(TWO, dd))} })

U_half_h(UU, i_lo, i_hi, j, dt) ==
    Val({ half_001(uhi, ulo, F_001(uhi), F_001(ulo), dt) :
            uhi \in {U_001(UU, i_hi, j)}, ulo \in {U_001(UU, i_lo, j)} })

U_half_v(UU, i, j_lopez, j_hi, dt) ==
    Val({ half_001(uhi, ulo, G_001(uhi), G_001(ulo), dt) :
            uhi \in {U_001(UU, i, j_hi)}, ulo \in {U_001(UU, i, j_lopez)} })

\* the body of the two loops for the cell (i, j): new_U_xy
new_U_xy(UU, i, j, dt) ==
    Val({ Cell(Sub(here[0], Mul(dtdd, Sub(Add(Sub(fh[0], fl[0]), gh[0]), gl[0]))),
               Sub(here[1], Mul(dtdd, Sub(Add(Sub(fh[1], fl[1]), gh[1]), gl[1]))),
               Sub(here[2], Mul(dtdd, Sub(Add(Sub(fh[2], fl[2]), gh[2]), gl[2]))))
          : dtdd \in {Div(dt, dd)},
            fh \in {F_001(U_half_h(UU, i, i + 1, j, dt))},
            fl \in {F_001(U_half_h(UU, i - 1, i, j, dt))},
            gh \in {G_001(U_half_v(UU, i, j, j + 1, dt))},
            gl \in {G_001(U_half_v(UU, i, j - 1, j, dt))},
            here \in {U_001(UU, i, j)} })

\* what is written to new_n[i][j], new_u[i][j] and new_v[i][j]
written_001(UU, i, j, dt) ==
    Val({ Cell(new[0], Div(new[1], new[0]), Div(new[2], new[0])) :
            new \in {new_U_xy(UU, i, j, dt)} })

\* step from the k-th cell on, in the order of the loops. new_n, new_u and
\* new_v are the arrays n, u and v themselves (this.new_n = this.n), so every
\* cell is written into the grid the later cells read, and is written before
\* the test that returns early.
RECURSIVE step_001(_, _, _)
step_001(UU, k, dt) ==
    IF k = QUANT * QUANT
    THEN [grid |-> UU, early |-> FALSE]
    ELSE LET i == k \div QUANT
             j == k % QUANT
         IN Val({ IF ~IsFinite(W[i][j][0])
                  THEN [grid |-> W, early |-> TRUE]
                  ELSE step_001(W, k + 1, dt)
                  : W \in {[UU EXCEPT ![i][j] = written_001(UU, i, j, dt)]} })

\* drop(x, y) of plip(i, j)
drop_001(x, y, i, j) ==
    Mul(Num(30), Add(Mul(Num(x - i), Num(x - i)), Mul(Num(y - j), Num(y - j))))

plip_001(i, j) ==
    [p \in Idx(QUANT) |-> [q \in Idx(QUANT) |->
        Cell(Add(U[p][q][0], drop_001(p, q, i, j)), U[p][q][1], U[p][q][2])]]

\* new SWE(QUANT, LENGTH, undefined, undefined, undefined, g)
Construct_001(QUANTarg, LENGTHarg, garg) ==
    /\ QUANT = IF QUANTarg = 0 THEN DefaultQuant ELSE QUANTarg
    /\ LENGTH = IF LENGTHarg = Undef THEN Num(DefaultLength) ELSE LENGTHarg
    /\ dd = Div(LENGTH, Num(QUANT))
    /\ U = [i \in Idx(QUANTarg) |-> [j \in Idx(QUANTarg) |->
              Cell(Num(1), ZERO, ZERO)]]
    /\ g = IF garg = Undef THEN DefaultG ELSE garg
    /\ U_lax_horizontal = << >>
    /\ U_lax_vertical = << >>
    /\ op = [NoCall EXCEPT
                !.args = <<QUANTarg, LENGTHarg, Undef, Undef, Undef, garg>>]
    /\ U_old = U
    /\ nsteps = 0
    /\ nplips = 0

Init_001 ==
    /\ exact = FALSE
    /\ NoPage
    /\ delegate = FALSE
    /\ \E q \in {2, 3} : \E l \in {Undef, Num(q)} : \E gg \in {Undef, Num(2)} :
          Construct_001(q, l, gg)

\* step(dt) returns nothing whether it ran to the end or returned early
Step_001(dt) ==
    /\ nsteps < MaxSteps
    /\ LET r == step_001(U, 0, dt)
       IN /\ U' = r.grid
          /\ trace' = IF r.early THEN <<"bad new guy!!">> ELSE << >>
    /\ op' = [name |-> "step", dt |-> dt, i |-> 0, j |-> 0,
              ret |-> "undefined", args |-> << >>]
    /\ U_old' = U
    /\ nsteps' = nsteps + 1
    /\ UNCHANGED <<QUANT, LENGTH, dd, g, exact, nplips,
                   U_lax_horizontal, U_lax_vertical>>
    /\ UNCHANGED <<id, pending, issued, outside, ev, atPlip, delegate, calls,
                   running, automaton>>

Plip_001(i, j) ==
    /\ nplips < MaxPlips
    /\ U' = plip_001(i, j)
    /\ op' = [name |-> "plip", dt |-> ZERO, i |-> i, j |-> j, ret |-> "true",
              args |-> << >>]
    /\ U_old' = U
    /\ nplips' = nplips + 1
    /\ trace' = << >>
    /\ UNCHANGED <<QUANT, LENGTH, dd, g, exact, nsteps,
                   U_lax_horizontal, U_lax_vertical>>
    /\ UNCHANGED <<id, pending, issued, outside, ev, atPlip, delegate, calls,
                   running, automaton>>

\* the time steps: fractions of a second, and the milliseconds between two
\* frames that the page of part_001 passes
DtArgs_001 == {Rat(1, 64), Rat(1, 4), Num(16)}

Next_001 ==
    \/ \E dt \in DtArgs_001 : Step_001(dt)
    \/ \E a \in PlipArgs(QUANT) : Plip_001(a[1], a[2])

Spec_001 == Init_001 /\ [][Next_001]_vars

(* ------------- the page of src/bathtub.js: CanvasBathtub --------------- *)
\* clicks the page takes in one run
MaxClicks == 2

\* var system = new SWE(Q, this.width): the grid is Q x Q cells of height 1
\* at rest, LENGTH is the width of the canvas, g is the default
Widths == {Num(3), Num(15)}

InitPage ==
    /\ exact = FALSE
    /\ NoPage
    /\ delegate = FALSE
    /\ \E w \in Widths : Construct(3, w, Undef, Undef, Undef, Undef)

\* (now - then) / 1000: a frame after a sixty-fourth of a second, and a frame
\* after the page was in the background for a hundred seconds
DtPage == {Rat(1, 64), Num(100)}

\* requestAnimationFrame hands out a new handle and the request is outstanding
\* until it is run or cancelled
Requested(rest) ==
    /\ issued' = issued + 1
    /\ id' = issued + 1
    /\ pending' = rest \cup {issued + 1}

\* cancelAnimationFrame(self.id); an undefined or a stale handle cancels nothing
Cancelled == pending \ {id}

\* variant: the scan looks at the first row only
Bad_FirstRowOnly(UU) == \E j \in Idx(QUANT) : IsNaN(UU[0][j][0])

\* the scan of animate: some height is NaN
Bad(UU) == \E i \in Idx(QUANT), j \in Idx(QUANT) : IsNaN(UU[i][j][0])

\* loop() called by the code that made the CanvasBathtub
Loop ==
    /\ outside < 1
    /\ outside' = outside + 1
    /\ Requested(pending)
    /\ ev' = "loop"
    /\ trace' = << >>
    /\ UNCHANGED <<QUANT, LENGTH, dd, g, U, U_lax_horizontal, U_lax_vertical,
                   op, U_old, exact, nsteps, nplips, atPlip,
                   delegate, running, automaton, calls>>

\* Math.floor of a finite number
Floor(x) == x[1] \div x[2]

\* variant: the quotient is rounded to the nearest whole number
GridCoord_Rounds(offset) ==
    LET r == Div(Num(Floor(offset)), dd) IN Floor(Add(r, HALF))

\* Math.floor(Math.floor(offset) / system.dd), offset the position of the
\* pointer relative to the canvas, in pixels
GridCoord(offset) == Floor(Div(Num(Floor(offset)), dd))

\* the click handler at the pointer offsets (px, py): cleanup twice, plip at
\* the grid coordinates, and loop since plip returns true. args: the offsets
Click(px, py) ==
    /\ nplips < MaxClicks
    /\ atPlip' = Cancelled
    /\ U' = Plipped(GridCoord(px), GridCoord(py))
    /\ op' = [name |-> "plip", dt |-> ZERO,
              i |-> GridCoord(px), j |-> GridCoord(py), ret |-> "true",
              args |-> <<px, py>>]
    /\ U_old' = U
    /\ nplips' = nplips + 1
    /\ Requested(Cancelled)
    /\ ev' = "click"
    /\ trace' = << >>
    /\ UNCHANGED <<QUANT, LENGTH, dd, g, exact, nsteps, outside,
                   U_lax_horizontal, U_lax_vertical, delegate, calls,
                   running, automaton>>

\* the browser runs the request r: animate. The request is no longer
\* outstanding when the callback starts.
Frame(r, dt) ==
    /\ r \in pending
    /\ ev' = "frame"
    /\ IF Bad(U)
       THEN /\ trace' = <<"bad!">>
            /\ pending' = pending \ {r}
            /\ UNCHANGED <<U, U_lax_horizontal, U_lax_vertical, op, U_old,
                           nsteps, id, issued>>
       ELSE /\ Step(dt)
            /\ trace' = << >>
            /\ Requested(pending \ {r})
    /\ UNCHANGED <<QUANT, LENGTH, dd, g, exact, nplips, outside, atPlip,
                   delegate, running, automaton, calls>>

\* the left edge of column k of the grid, in pixels
LeftOf(k) == Mul(Num(k), dd)

NextPage ==
    \/ Loop
    \/ \E a \in PlipArgs(QUANT) : Click(LeftOf(a[1]), LeftOf(a[2]))
    \/ \E r \in pending : \E dt \in DtPage : Frame(r, dt)

SpecPage == InitPage /\ [][NextPage]_vars

\* clicks anywhere on the canvas, on grids and canvases of several sizes
InitClick ==
    /\ exact = FALSE
    /\ NoPage
    /\ delegate = FALSE
    /\ \E q \in 1..MaxQ : \E w \in Widths \cup {Num(7)} :
          Construct(q, w, Undef, Undef, Undef, Undef)

\* pointer offsets: the first pixel, inside the first pixel, a pixel in the
\* middle, the last pixel and the last sixteenth of it, and just left of the
\* canvas (a canvas placed at a fraction of a pixel)
Offsets ==
    {Rat(-1, 2), ZERO, Rat(1, 2), Num(Floor(Div(LENGTH, TWO))),
     Sub(LENGTH, Num(1)), Sub(LENGTH, Rat(1, 16))}

NextClick == \E px \in Offsets, py \in Offsets : Click(px, py)

SpecClick == InitClick /\ [][NextClick]_vars

(* ------------- the page and the system of src/unnamed/part_003 --------- *)
\* the system differs from that of bathtub.js in the default height and
\* gravity, in the drop, and in step, which zeroes no face; F, G, the full
\* step from the two face arrays, and addtoU are the same code

DefaultHeight_003 == 20
DefaultG_003 == Num(10)

LaxHorizontal_003(step_factor) ==
    [ih \in 0..QUANT |-> [jh \in 0..(QUANT - 1) |->
        LET uhlo == IF ih = 0 THEN U[ih][jh] ELSE U[ih - 1][jh]
            uhhi == IF ih = 0 THEN U[ih][jh]
                    ELSE IF ih = QUANT THEN U[ih - 1][jh] ELSE U[ih][jh]
        IN subthree(scalethree(HALF, addthree(uhhi, uhlo)),
                    scalethree(step_factor, subthree(F(uhhi), F(uhlo))))]]

LaxVertical_003(step_factor) ==
    [iv \in 0..(QUANT - 1) |-> [jv \in 0..QUANT |->
        LET uvlo == IF jv = 0 THEN U[iv][jv] ELSE U[iv][jv - 1]
            uvhi == IF jv = 0 THEN U[iv][jv]
                    ELSE IF jv = QUANT THEN U[iv][jv - 1] ELSE U[iv][jv]
        IN subthree(scalethree(HALF, addthree(uvhi, uvlo)),
                    scalethree(step_factor, subthree(G(uvhi), G(uvlo))))]]

\* Math.exp at the argument -0.008 * d2 to ten binary places, for the d2 of a
\* grid of three by three cells
Exp008Scale == 1024
Exp008Table == <<1024, 1016, 1008, 1000, 992, 984, 976, 968, 961>>
MathExp008(d2) == Rat(Exp008Table[d2 + 1], Exp008Scale)

amplitude_003 == 100

drop_003(x, y, i, j) ==
    Mul(Num(amplitude_003), MathExp008((x - i) * (x - i) + (y - j) * (y - j)))

Plipped_003(i, j) ==
    [p \in 0..(QUANT - 1) |-> [q \in 0..(QUANT - 1) |->
        addtoU(drop_003(p, q, i, j), U[p][q])]]

\* a != b on two numbers: NaN is unequal to everything, itself included
NotEqual(a, b) == IsNaN(a) \/ IsNaN(b) \/ a # b

\* variant: the delegate is given the height the cell had
Notified_ReportsOld(old, new) ==
    IF ~delegate THEN << >>
    ELSE LET cell(k) == <<(k - 1) \div QUANT, (k - 1) % QUANT>>
             Changed(c) == NotEqual(new[c[1]][c[2]][0], old[c[1]][c[2]][0])
         IN [k \in 1..Len(SelectSeq([k \in 1..(QUANT * QUANT) |-> cell(k)],
                                     Changed)) |->
               LET c == SelectSeq([kk \in 1..(QUANT * QUANT) |-> cell(kk)],
                                  Changed)[k]
               IN <<c[1], c[2], old[c[1]][c[2]][0]>>]

\* the calls delegate.updateHeightAt(i, j, U_next[i][j][0]) that step makes in
\* its loops over i and j, old the grid before and new the grid U_next
Notified(old, new) ==
    IF ~delegate THEN << >>
    ELSE LET cell(k) == <<(k - 1) \div QUANT, (k - 1) % QUANT>>
             Changed(c) == NotEqual(new[c[1]][c[2]][0], old[c[1]][c[2]][0])
         IN [k \in 1..Len(SelectSeq([k \in 1..(QUANT * QUANT) |-> cell(k)],
                                     Changed)) |->
               LET c == SelectSeq([kk \in 1..(QUANT * QUANT) |-> cell(kk)],
                                  Changed)[k]
               IN <<c[1], c[2], new[c[1]][c[2]][0]>>]

\* the id attribute of the canvas element
canvas_id == "conway"

\* var system = new SWE(Q, this.width)
InitPage_003 ==
    /\ exact = FALSE
    /\ NoPage
    /\ delegate = TRUE
    /\ QUANT = 3
    /\ \E w \in Widths : LENGTH = w
    /\ dd = Div(LENGTH, Num(QUANT))
    /\ U = [_ii \in Idx(QUANT) |-> [_jj \in Idx(QUANT) |->
              Cell(Num(DefaultHeight_003),
                   Mul(Num(DefaultHeight_003), ZERO),
                   Mul(Num(DefaultHeight_003), ZERO))]]
    /\ g = DefaultG_003
    /\ U_lax_horizontal = << >>
    /\ U_lax_vertical = << >>
    /\ op = [NoCall EXCEPT
                !.args = <<3, LENGTH, Undef, Undef, Undef, Undef>>]
    /\ U_old = U
    /\ nsteps = 0
    /\ nplips = 0

\* clearInterval(h): a handle that is not a running timer's stops nothing
Cleared(h) == {t \in pending : ToString(t) # ToString(h)}

\* the click handler. jQuery calls it with `this` bound to the canvas element,
\* so clearInterval(this.id) is given the id attribute of the element and not
\* the handle in self.id. Then plip, and loop() starts a timer.
Click_003(x, y) ==
    /\ nplips < MaxClicks
    /\ atPlip' = Cleared(canvas_id)
    /\ U' = Plipped_003(x, y)
    /\ op' = [name |-> "plip", dt |-> ZERO, i |-> x, j |-> y, ret |-> "true",
              args |-> << >>]
    /\ U_old' = U
    /\ nplips' = nplips + 1
    /\ issued' = issued + 1
    /\ id' = issued + 1
    /\ pending' = Cleared(canvas_id) \cup {issued + 1}
    /\ ev' = "click"
    /\ trace' = << >>
    /\ calls' = << >>
    /\ UNCHANGED <<QUANT, LENGTH, dd, g, exact, nsteps, outside,
                   U_lax_horizontal, U_lax_vertical, delegate,
                   running, automaton>>

\* the timer t fires: system.step(dt / 20000); the timer stays
Tick_003(t, dt) ==
    /\ t \in pending
    /\ nsteps < MaxSteps
    /\ LET step_factor == Div(Mul(dt, HALF), dd)
           H == LaxHorizontal_003(step_factor)
           V == LaxVertical_003(step_factor)
           next_factor == Mul(step_factor, TWO)
       IN /\ U_lax_horizontal' = H
          /\ U_lax_vertical' = V
          /\ U' = UNext(next_factor, H, V)
          /\ calls' = Notified(U, UNext(next_factor, H, V))
    /\ op' = [name |-> "step", dt |-> dt, i |-> 0, j |-> 0, ret |-> "true",
              args |-> << >>]
    /\ U_old' = U
    /\ nsteps' = nsteps + 1
    /\ ev' = "tick"
    /\ trace' = << >>
    /\ UNCHANGED <<QUANT, LENGTH, dd, g, exact, nplips,
                   id, pending, issued, outside, atPlip, delegate,
                   running, automaton>>

\* dt / 20000 for a timer that fires after one millisecond and after a second
DtArgs_003 == {Rat(1, 20000), Rat(1, 20)}

NextPage_003 ==
    \/ \E a \in PlipArgs(QUANT) : Click_003(a[1], a[2])
    \/ \E t \in pending : \E dt \in DtArgs_003 : Tick_003(t, dt)

SpecPage_003 == InitPage_003 /\ [][NextPage_003]_vars

\* the system of part_003 (and of part_004, which has the same code) alone,
\* with a delegate and without one
\* an initial height field with one raised cell in a corner
Bump(n) == [i \in Idx(n) |-> [j \in Idx(n) |->
              IF i = 0 /\ j = 0 THEN Num(3) ELSE Num(2)]]

\* new SWE(3, w, n_o, undefined, undefined, g), n_o and g given or not
Init_003 ==
    /\ exact = FALSE
    /\ NoPage
    /\ delegate \in BOOLEAN
    /\ QUANT = 3
    /\ \E w \in Widths : LENGTH = w
    /\ dd = Div(LENGTH, Num(QUANT))
    /\ \E n_o \in {Undef, Bump(3)} : \E garg \in {Undef, Num(2)} :
          /\ U = [_ii \in Idx(QUANT) |-> [_jj \in Idx(QUANT) |->
                    LET h == IF n_o = Undef THEN Num(DefaultHeight_003)
                             ELSE n_o[_ii][_jj]
                    IN Cell(h, Mul(h, ZERO), Mul(h, ZERO))]]
          /\ g = IF garg = Undef THEN DefaultG_003 ELSE garg
          /\ op = [NoCall EXCEPT
                      !.args = <<3, LENGTH, n_o, Undef, Undef, garg>>]
    /\ U_lax_horizontal = << >>
    /\ U_lax_vertical = << >>
    /\ U_old = U
    /\ nsteps = 0
    /\ nplips = 0

Step_003(dt) ==
    /\ nsteps < MaxSteps
    /\ LET step_factor == Div(Mul(dt, HALF), dd)
           H == LaxHorizontal_003(step_factor)
           V == LaxVertical_003(step_factor)
           next_factor == Mul(step_factor, TWO)
       IN /\ U_lax_horizontal' = H
          /\ U_lax_vertical' = V
          /\ U' = UNext(next_factor, H, V)
          /\ calls' = Notified(U, UNext(next_factor, H, V))
    /\ op' = [name |-> "step", dt |-> dt, i |-> 0, j |-> 0, ret |-> "true",
              args |-> << >>]
    /\ U_old' = U
    /\ nsteps' = nsteps + 1
    /\ UNCHANGED <<QUANT, LENGTH, dd, g, exact, nplips, delegate,
                   running, automaton,
                   id, pending, issued, outside, ev, atPlip, trace>>

Plip_003(i, j) ==
    /\ nplips < MaxPlips
    /\ U' = Plipped_003(i, j)
    /\ op' = [name |-> "plip", dt |-> ZERO, i |-> i, j |-> j, ret |-> "true",
              args |-> << >>]
    /\ U_old' = U
    /\ nplips' = nplips + 1
    /\ calls' = << >>
    /\ UNCHANGED <<QUANT, LENGTH, dd, g, exact, nsteps, delegate,
                   running, automaton,
                   U_lax_horizontal, U_lax_vertical,
                   id, pending, issued, outside, ev, atPlip, trace>>

Next_003 ==
    \/ \E dt \in DtArgs_003 \cup {Num(1)} : Step_003(dt)
    \/ \E a \in PlipArgs(QUANT) : Plip_003(a[1], a[2])

Spec_003 == Init_003 /\ [][Next_003]_vars

(* ------------- the page of src/unnamed/part_004 ------------------------ *)
\* the system is the code of part_003's; its step is written here for a grid
\* UU, since the click handler calls plip and, through loop, step
LaxHorizontal_004(UU, step_factor) ==
    [ih \in 0..QUANT |-> [jh \in 0..(QUANT - 1) |->
        LET uhlo == IF ih = 0 THEN UU[ih][jh] ELSE UU[ih - 1][jh]
            uhhi == IF ih = 0 THEN UU[ih][jh]
                    ELSE IF ih = QUANT THEN UU[ih - 1][jh] ELSE UU[ih][jh]
        IN subthree(scalethree(HALF, addthree(uhhi, uhlo)),
                    scalethree(step_factor, subthree(F(uhhi), F(uhlo))))]]

LaxVertical_004(UU, step_factor) ==
    [iv \in 0..(QUANT - 1) |-> [jv \in 0..QUANT |->
        LET uvlo == IF jv = 0 THEN UU[iv][jv] ELSE UU[iv][jv - 1]
            uvhi == IF jv = 0 THEN UU[iv][jv]
                    ELSE IF jv = QUANT THEN UU[iv][jv - 1] ELSE UU[iv][jv]
        IN subthree(scalethree(HALF, addthree(uvhi, uvlo)),
                    scalethree(step_factor, subthree(G(uvhi), G(uvlo))))]]

UNext_004(UU, next_factor, H, V) ==
    [i \in 0..(QUANT - 1) |-> [j \in 0..(QUANT - 1) |->
        subthree(UU[i][j],
                 scalethree(next_factor,
                            addthree(subthree(F(H[i + 1][j]), F(H[i][j])),
                                     subthree(G(V[i][j + 1]), G(V[i][j])))))]]

\* system.step(dt) on the grid UU: the two face arrays and the new grid
step_004(UU, dt) ==
    Val({ Val({ [H |-> hv[1], V |-> hv[2],
                 U_next |-> UNext_004(UU, Mul(step_factor, TWO),
                                      hv[1], hv[2])] :
                hv \in {<<LaxHorizontal_004(UU, step_factor),
                          LaxVertical_004(UU, step_factor)>>} }) :
          step_factor \in {Div(Mul(dt, HALF), dd)} })

\* new CanvasBathtub($ctnr): running, a system with the page as its delegate,
\* and no request for an animation frame
InitPage_004 ==
    /\ exact = FALSE
    /\ id = Undef /\ pending = {} /\ issued = 0 /\ outside = 0
    /\ ev = "none" /\ atPlip = {} /\ trace = << >> /\ calls = << >>
    /\ running = TRUE
    /\ state = << >> /\ width = 0 /\ height = 0 /\ generation = 0
    /\ delegate = TRUE
    /\ QUANT = 3
    /\ \E w \in Widths : LENGTH = w
    /\ dd = Div(LENGTH, Num(QUANT))
    /\ U = [_ii \in Idx(QUANT) |-> [_jj \in Idx(QUANT) |->
              Cell(Num(DefaultHeight_003),
                   Mul(Num(DefaultHeight_003), ZERO),
                   Mul(Num(DefaultHeight_003), ZERO))]]
    /\ g = DefaultG_003
    /\ U_lax_horizontal = << >>
    /\ U_lax_vertical = << >>
    /\ op = [NoCall EXCEPT
                !.args = <<3, LENGTH, Undef, Undef, Undef, Undef>>]
    /\ U_old = U
    /\ nsteps = 0
    /\ nplips = 0

\* dt / 10000 for a loop that runs one millisecond and sixteen milliseconds
\* after the last
DtArgs_004 == {Rat(1, 10000), Rat(1, 625)}

\* if (self.running) window.requestAnimationFrame(self.loop): the requests
\* outstanding after loop, rest those outstanding before
Rescheduled(rest) == IF running THEN rest \cup {issued + 1} ELSE rest

\* the click handler at the grid coordinates (x, y): running = false, plip,
\* update, running = true, and loop, which steps the system and, running
\* being true again, requests an animation frame.  nsteps counts the steps of
\* the animation frames only.
Click_004(x, y, dt) ==
    /\ nplips < MaxClicks
    /\ atPlip' = pending
    /\ running' = TRUE
    /\ LET s == Val({ step_004(P, dt) : P \in {Plipped_003(x, y)} })
       IN /\ U_lax_horizontal' = s.H
          /\ U_lax_vertical' = s.V
          /\ U' = s.U_next
          /\ U_old' = Plipped_003(x, y)
          /\ calls' = Notified(Plipped_003(x, y), s.U_next)
    /\ op' = [name |-> "step", dt |-> dt, i |-> x, j |-> y, ret |-> "true",
              args |-> << >>]
    /\ nplips' = nplips + 1
    /\ issued' = issued + 1
    /\ pending' = pending \cup {issued + 1}
    /\ ev' = "click"
    /\ UNCHANGED <<QUANT, LENGTH, dd, g, exact, nsteps, outside, id, trace,
                   delegate, automaton>>

\* the browser runs the request r: loop
Loop_004(r, dt) ==
    /\ r \in pending
    /\ nsteps < MaxSteps
    /\ LET s == step_004(U, dt)
       IN /\ U_lax_horizontal' = s.H
          /\ U_lax_vertical' = s.V
          /\ U' = s.U_next
          /\ calls' = Notified(U, s.U_next)
    /\ U_old' = U
    /\ op' = [name |-> "step", dt |-> dt, i |-> 0, j |-> 0, ret |-> "true",
              args |-> << >>]
    /\ nsteps' = nsteps + 1
    /\ issued' = IF running THEN issued + 1 ELSE issued
    /\ pending' = Rescheduled(pending \ {r})
    /\ ev' = "frame"
    /\ UNCHANGED <<QUANT, LENGTH, dd, g, exact, nplips, outside, id, trace,
                   atPlip, delegate, running, automaton>>

\* cleanup() called by the code that made the CanvasBathtub
Cleanup_004 ==
    /\ outside < 1
    /\ outside' = outside + 1
    /\ running' = FALSE
    /\ ev' = "cleanup"
    /\ UNCHANGED <<QUANT, LENGTH, dd, g, U, U_lax_horizontal, U_lax_vertical,
                   op, U_old, exact, nsteps, nplips, id, pending, issued,
                   atPlip, trace, delegate, calls, automaton>>

NextPage_004 ==
    \/ \E a \in PlipArgs(QUANT) : \E dt \in DtArgs_004 :
          Click_004(a[1], a[2], dt)
    \/ \E r \in pending : \E dt \in DtArgs_004 : Loop_004(r, dt)
    \/ Cleanup_004

SpecPage_004 == InitPage_004 /\ [][NextPage_004]_vars

(* ------------- the automata of src/unnamed/part_004 -------------------- *)
\* no system: the variables of SWE when the page shows an automaton
NoSystem ==
    /\ exact = FALSE /\ delegate = FALSE
    /\ QUANT = 0 /\ LENGTH = Undef /\ dd = Undef /\ g = Undef
    /\ U = << >> /\ U_old = << >>
    /\ U_lax_horizontal = << >> /\ U_lax_vertical = << >>
    /\ op = NoCall
    /\ nsteps = 0 /\ nplips = 0
    /\ id = Undef /\ pending = {} /\ issued = 0 /\ outside = 0
    /\ ev = "none" /\ atPlip = {} /\ trace = << >> /\ calls = << >>
    /\ running = Undef

\* the SWE variables and those of the page, which no automaton touches
system == <<QUANT, LENGTH, dd, g, U, U_lax_horizontal, U_lax_vertical,
            U_old, exact, nplips, id, pending, issued, outside, ev, atPlip,
            trace, delegate, calls, running>>

MaxWidth == 5
MaxGenerations == 3

\* new RuleOneTen($container): a random row as wide as the container
Init_110 ==
    /\ NoSystem
    /\ generation = 0
    /\ width \in 0..MaxWidth
    /\ height = 2
    /\ state \in [Idx(width) -> BOOLEAN]

\* this.state[k] || false: an element the array lacks is undefined
Alive(k) == IF k \in DOMAIN state THEN state[k] ELSE FALSE

\* variant: the row is a ring, its first cell next to its last
lives_110_Ring(i) ==
    LET p == state[(i + width - 1) % width]
        q == state[i]
        r == state[(i + 1) % width]
    IN (q /\ ~p) \/ ((q \/ r) /\ ~(q /\ r))

\* RuleOneTen.lives(i)
lives_110(i) ==
    LET p == Alive(i - 1)
        q == Alive(i)
        r == Alive(i + 1)
    IN (q /\ ~p) \/ ((q \/ r) /\ ~(q /\ r))

\* RuleOneTen.step()
Step_110 ==
    /\ generation < MaxGenerations
    /\ state' = [i \in Idx(width) |-> lives_110(i)]
    /\ generation' = generation + 1
    /\ op' = [name |-> "step", dt |-> ZERO, i |-> 0, j |-> 0,
              ret |-> "undefined", args |-> << >>]
    /\ nsteps' = nsteps + 1
    /\ UNCHANGED <<width, height>>
    /\ UNCHANGED system

Spec_110 == Init_110 /\ [][Step_110]_vars

\* Conway: this.state[x][y] is the cell in column x and row y
MaxCols == 3
MaxRows == 3

\* new Conway($container): a random board as large as the container
Init_Conway ==
    /\ NoSystem
    /\ generation = 0
    /\ width \in 2..MaxCols
    /\ height \in 1..MaxRows
    /\ state \in [Idx(width) -> [Idx(height) -> BOOLEAN]]

\* if (this.state[x][y]): an element the column lacks is undefined
Lit(x, y) == IF y \in DOMAIN state[x] THEN state[x][y] ELSE FALSE

\* n after the tests of the cells in S
Count(S) == Cardinality({c \in S : Lit(c[1], c[2])})

\* variant: a cell away from the edges counts itself
neighbors_CountsSelf(x, y) ==
    IF x > 0 /\ x < width - 1 /\ y > 0 /\ y < height
    THEN Count({<<x + i, y + p>> : i \in -1..1, p \in -1..1})
    ELSE Count({<<x + i, y + p>> : i \in -1..1, p \in -1..1}
               \cap ((Idx(width) \X Idx(height)) \ {<<x, y>>}))

\* Conway.neighbors(x, y), branch by branch
neighbors(x, y) ==
    IF x > 0 /\ x < width - 1 /\ y > 0 /\ y < height
    THEN Count({<<x + i, y + p>> : i \in -1..1, p \in -1..1} \ {<<x, y>>})
    ELSE IF x = 0 /\ y = 0
    THEN Count({<<x, y + 1>>, <<x + 1, y>>, <<x + 1, y + 1>>})
    ELSE IF x = 0 /\ y = height - 1
    THEN Count({<<x, y - 1>>, <<x + 1, y - 1>>, <<x + 1, y>>})
    ELSE IF x = width - 1 /\ y = 0
    THEN Count({<<x - 1, y>>, <<x - 1, y + 1>>, <<x, y + 1>>})
    ELSE IF x = width - 1 /\ y = height - 1
    THEN Count({<<x, y - 1>>, <<x - 1, y>>, <<x - 1, y - 1>>})
    ELSE IF x = 0
    THEN Count({<<x, y + 1>>, <<x, y - 1>>, <<x + 1, y + 1>>,
                <<x + 1, y - 1>>, <<x + 1, y>>})
    ELSE IF x = width - 1
    THEN Count({<<x, y + 1>>, <<x, y - 1>>, <<x - 1, y + 1>>,
                <<x - 1, y - 1>>, <<x - 1, y>>})
    ELSE IF y = 0
    THEN Count({<<x + 1, y>>, <<x - 1, y>>, <<x + 1, y + 1>>,
                <<x - 1, y + 1>>, <<x, y + 1>>})
    ELSE IF y = height - 1
    THEN Count({<<x + 1, y>>, <<x - 1, y>>, <<x + 1, y - 1>>,
                <<x - 1, y - 1>>, <<x, y - 1>>})
    ELSE 0

\* Conway.lives(x, y)
lives_Conway(x, y) ==
    IF state[x][y] THEN neighbors(x, y) > 1 /\ neighbors(x, y) < 4
    ELSE neighbors(x, y) = 3

\* Conway.next()
next_Conway ==
    /\ nsteps < MaxSteps
    /\ state' = [x \in Idx(width) |-> [y \in Idx(height) |->
                    lives_Conway(x, y)]]
    /\ op' = [name |-> "next", dt |-> ZERO, i |-> 0, j |-> 0,
              ret |-> "array", args |-> << >>]
    /\ nsteps' = nsteps + 1
    /\ UNCHANGED <<width, height, generation>>
    /\ UNCHANGED system

Spec_Conway == Init_Conway /\ [][next_Conway]_vars

(* ------------------------- auxiliary notions --------------------------- *)
Finite3(c) == IsFinite(c[0]) /\ IsFinite(c[1]) /\ IsFinite(c[2])
GridFinite(UU) == \A i \in DOMAIN UU : \A j \in DOMAIN UU[i] : Finite3(UU[i][j])

\* every cell has the same finite non-zero height
FlatHeights(UU) ==
    /\ IsFinite(UU[0][0][0]) /\ UU[0][0][0] # ZERO
    /\ \A i \in DOMAIN UU : \A j \in DOMAIN UU[i] : UU[i][j][0] = UU[0][0][0]
\* ... and no cell has momentum
FlatStill(UU) ==
    /\ FlatHeights(UU)
    /\ \A i \in DOMAIN UU : \A j \in DOMAIN UU[i] :
          UU[i][j][1] = ZERO /\ UU[i][j][2] = ZERO

\* both fluxes of the cell c are finite Numbers
FluxFinite(c) == Finite3(F(c)) /\ Finite3(G(c))

\* order of two finite Numbers
Less(x, y) == x[1] * y[2] < y[1] * x[2]
LessEq(x, y) == x[1] * y[2] <= y[1] * x[2]

Dist2(p, q, i, j) == (p - i) * (p - i) + (q - j) * (q - j)

\* the n_o, u_o or v_o given (if any) is not an array of q x q elements
Mismatched(a, q) ==
    a # Undef /\ (DOMAIN a # Idx(q) \/ \E i \in DOMAIN a : DOMAIN a[i] # Idx(q))

\* the cell a representable quotient x / y stands for
Representable(x) == x # Unrep

\* the sum of the heights of all cells, added row by row
RECURSIVE SumHeights(_, _)
SumHeights(UU, k) ==
    IF k = 0 THEN ZERO
    ELSE Add(SumHeights(UU, k - 1),
             UU[(k - 1) \div Cardinality(DOMAIN UU)]
               [(k - 1) % Cardinality(DOMAIN UU)][0])
Mass(UU) == SumHeights(UU, Cardinality(DOMAIN UU) * Cardinality(DOMAIN UU))

\* no edge cell has momentum towards or away from its wall
EdgeNormalZero(UU) ==
    LET last == Cardinality(DOMAIN UU) - 1
    IN \A k \in DOMAIN UU :
          /\ UU[0][k][1] = ZERO /\ UU[last][k][1] = ZERO
          /\ UU[k][0][2] = ZERO /\ UU[k][last][2] = ZERO

\* the height flux out of the domain through the faces on its edge: the first
\* component of F on the faces ih = QUANT less that on ih = 0, and of G on the
\* faces jv = QUANT less that on jv = 0, summed over the k first rows/columns
RECURSIVE EdgeFlux(_, _, _)
EdgeFlux(H, V, k) ==
    IF k = 0 THEN ZERO
    ELSE Add(EdgeFlux(H, V, k - 1),
             Add(Sub(F(H[QUANT][k - 1])[0], F(H[0][k - 1])[0]),
                 Sub(G(V[k - 1][QUANT])[0], G(V[k - 1][0])[0])))

\* no face on the domain edge has momentum through its wall
EdgeFacesStill(H, V) ==
    \A k \in Idx(QUANT) :
        /\ H[0][k][1] = ZERO /\ H[QUANT][k][1] = ZERO
        /\ V[k][0][2] = ZERO /\ V[k][QUANT][2] = ZERO

\* every cell of UU has a finite height above zero and finite momenta
PositiveHeights(UU) ==
    \A p \in DOMAIN UU : \A q \in DOMAIN UU[p] :
        Finite3(UU[p][q]) /\ Less(ZERO, UU[p][q][0])

\* the velocities of the cell c
Velocity(c) == <<Div(c[1], c[0]), Div(c[2], c[0])>>

\* the chains of loop that are active: the outstanding requests, each of
\* which runs loop, which requests again while running is true
ActiveChains == IF running THEN pending ELSE {}

\* the cells of the board next to (x, y), diagonals included
Moore(x, y) ==
    {c \in Idx(width) \X Idx(height) :
        /\ c # <<x, y>>
        /\ c[1] - x \in -1..1
        /\ c[2] - y \in -1..1}

(* ------------------------------ claims -------------------------------- *)

\* C1: a step on a grid whose cells all have the same non-zero height and no
\* momentum leaves every cell (interior, edge, corner) unchanged, for every
\* dt; so the flat grid is a fixed point of any number of steps.  The height is
\* one whose fluxes are finite Numbers (g * h * h does not overflow).
C1_FlatFixedPoint ==
    (op.name = "step" /\ FlatStill(U_old) /\ FluxFinite(U_old[0][0]))
        => U = U_old

C1_Witness ==
    /\ op.name = "step" /\ nsteps >= 2 /\ nplips = 0
    /\ QUANT >= 3 /\ FlatStill(U_old) /\ FluxFinite(U_old[0][0])
    /\ FlatStill(U)

\* C2: after step(dt) every one of the QUANT x QUANT cells, edge and corner
\* cells included, is the old cell minus (dt/dd) times
\* [F(half_h[i+1][j]) - F(half_h[i][j])] + [G(half_v[i][j+1]) - G(half_v[i][j])].
C2_FullStepFormula ==
    op.name = "step" =>
        LET c == Div(op.dt, dd)
            H == U_lax_horizontal
            V == U_lax_vertical
        IN /\ DOMAIN U = Idx(QUANT)
           /\ \A i \in Idx(QUANT) :
                /\ DOMAIN U[i] = Idx(QUANT)
                /\ \A j \in Idx(QUANT) :
                     LET FhiH == F(H[i + 1][j])
                         FloH == F(H[i][j])
                         GhiV == G(V[i][j + 1])
                         GloV == G(V[i][j])
                     IN \A k \in 0..2 :
                          U[i][j][k] =
                            Sub(U_old[i][j][k],
                                Mul(c, Add(Sub(FhiH[k], FloH[k]),
                                           Sub(GhiV[k], GloV[k]))))

\* a step has given momentum to a corner cell and to an edge cell that had none
C2_Witness ==
    /\ op.name = "step" /\ QUANT >= 3 /\ nsteps = 1 /\ GridFinite(U)
    /\ U_old[0][0][1] = ZERO /\ U[0][0][1] # ZERO
    /\ U_old[0][1][1] = ZERO /\ U[0][1][1] # ZERO
    /\ U[1][1] # U_old[1][1]

\* C3: the horizontal half-step array is (QUANT+1) x QUANT and the vertical one
\* QUANT x (QUANT+1); every face between two cells holds the average of the two
\* cells minus (dt/(2 dd)) times the difference of their fluxes (F on horizontal
\* faces, G on vertical ones), in every component that the boundary zeroing
\* does not overwrite.
C3_HalfStepFormula ==
    op.name = "step" =>
        LET c == Div(op.dt, Mul(TWO, dd))
            H == U_lax_horizontal
            V == U_lax_vertical
        IN /\ DOMAIN H = 0..QUANT
           /\ \A ih \in 0..QUANT : DOMAIN H[ih] = Idx(QUANT)
           /\ DOMAIN V = Idx(QUANT)
           /\ \A iv \in Idx(QUANT) : DOMAIN V[iv] = 0..QUANT
           /\ \A ih \in 1..(QUANT - 1) : \A jh \in Idx(QUANT) :
                LET Fhi == F(U_old[ih][jh])
                    Flo == F(U_old[ih - 1][jh])
                IN \A k \in 0..2 :
                     (k = 1 /\ (jh = 0 \/ jh = QUANT - 1))
                     \/ H[ih][jh][k] =
                          Sub(Mul(HALF, Add(U_old[ih][jh][k],
                                            U_old[ih - 1][jh][k])),
                              Mul(c, Sub(Fhi[k], Flo[k])))
           /\ \A iv \in Idx(QUANT) : \A jv \in 1..(QUANT - 1) :
                LET Ghi == G(U_old[iv][jv])
                    Glo == G(U_old[iv][jv - 1])
                IN \A k \in 0..2 :
                     (k = 2 /\ (iv = 0 \/ iv = QUANT - 1))
                     \/ V[iv][jv][k] =
                          Sub(Mul(HALF, Add(U_old[iv][jv][k],
                                            U_old[iv][jv - 1][k])),
                              Mul(c, Sub(Ghi[k], Glo[k])))

\* a step has produced faces between cells that carry momentum
C3_Witness ==
    /\ op.name = "step" /\ QUANT >= 3
    /\ Finite3(U_lax_horizontal[1][1]) /\ U_lax_horizontal[1][1][1] # ZERO
    /\ Finite3(U_lax_vertical[1][1]) /\ U_lax_vertical[1][1][2] # ZERO

\* C4: plip(i,j) adds amplitude * exp(-((p-i)^2 + (q-j)^2)) to the height of
\* every cell (p,q), once; the centre cell gains amplitude; on a 4 x 4 grid of
\* height 1, plip(2,2) makes heightAt(2,2) = 1 + amplitude and
\* heightAt(0,0) = 1 + amplitude * exp(-8).
C4_PlipKernel ==
    op.name = "plip" =>
        /\ \A p \in Idx(QUANT) : \A q \in Idx(QUANT) :
             U[p][q][0] =
               Add(U_old[p][q][0],
                   Mul(Num(amplitude), MathExpNeg(Dist2(p, q, op.i, op.j))))
        /\ U[op.i][op.j][0] = Add(U_old[op.i][op.j][0], Num(amplitude))
        /\ (QUANT = 4 /\ FlatHeights(U_old) /\ U_old[0][0][0] = Num(1)
            /\ op.i = 2 /\ op.j = 2)
           => /\ heightAt(2, 2) = Add(Num(1), Num(amplitude))
              /\ heightAt(0, 0) =
                   Add(Num(1), Mul(Num(amplitude), MathExpNeg(8)))

C4_Witness ==
    /\ op.name = "plip" /\ op.i = 2 /\ op.j = 2 /\ QUANT = 4
    /\ FlatHeights(U_old) /\ U_old[0][0][0] = Num(1)
    /\ heightAt(2, 2) = Num(1 + amplitude)
    /\ heightAt(1, 2) # heightAt(2, 2) /\ heightAt(1, 2) # Num(1)
    /\ heightAt(0, 0) = Add(Num(1), Mul(Num(amplitude), MathExpNeg(8)))

C7_EdgeNormalStaysZero ==
    GridFinite(U) => EdgeNormalZero(U)

\* C8: every half-step cell on a domain-edge face has the height of the
\* adjacent boundary cell and no momentum normal to the edge: no x-momentum on
\* the faces ih = 0 and ih = QUANT of the horizontal array, no y-momentum on the
\* faces jv = 0 and jv = QUANT of the vertical array.
C8_EdgeFacesNormalZero ==
    (op.name = "step" /\ GridFinite(U_old)) =>
        \A k \in Idx(QUANT) :
            /\ U_lax_horizontal[0][k][0] = U_old[0][k][0]
            /\ U_lax_horizontal[QUANT][k][0] = U_old[QUANT - 1][k][0]
            /\ U_lax_vertical[k][0][0] = U_old[k][0][0]
            /\ U_lax_vertical[k][QUANT][0] = U_old[k][QUANT - 1][0]
            /\ U_lax_horizontal[0][k][1] = ZERO
            /\ U_lax_horizontal[QUANT][k][1] = ZERO
            /\ U_lax_vertical[k][0][2] = ZERO
            /\ U_lax_vertical[k][QUANT][2] = ZERO

\* C9: a step changes the sum of the heights of all cells by no more than a
\* tolerance proportional to dt (here dt itself), so that N steps change it by
\* no more than N dt: the walls neither leak nor inject mass.
C9_MassConserved ==
    (op.name = "step" /\ GridFinite(U_old) /\ GridFinite(U)
     /\ IsFinite(Mass(U_old)) /\ IsFinite(Mass(U))) =>
        LET diff == Sub(Mass(U), Mass(U_old))
        IN LessEq(diff, op.dt) /\ LessEq(Neg(op.dt), diff)

\* C11: step does not return its success value while a cell of the grid it
\* leaves behind has a NaN or infinite height (it reports the instability).
C11_NoSilentInstability ==
    (op.name = "step" /\ op.ret = "true") =>
        \A i \in Idx(QUANT), j \in Idx(QUANT) : IsFinite(heightAt(i, j))

\* C15: after new SWE(Q, L, n0, u0, v0) every cell (i,j) holds
\* [n0[i][j], n0[i][j] * u0[i][j], n0[i][j] * v0[i][j]]; without n0 every cell
\* has the same default height; without u0 (v0) no cell has x- (y-) momentum.
C15_ConstructionPacks ==
    op.name = "new" =>
        LET n_o == op.args[3]
            u_o == op.args[4]
            v_o == op.args[5]
        IN /\ DOMAIN U = Idx(QUANT)
           /\ \A i \in Idx(QUANT) :
                /\ DOMAIN U[i] = Idx(QUANT)
                /\ \A j \in Idx(QUANT) :
                     /\ DOMAIN U[i][j] = 0..2
                     /\ IF n_o = Undef THEN U[i][j][0] = U[0][0][0]
                        ELSE U[i][j][0] = n_o[i][j]
                     /\ IF u_o = Undef THEN U[i][j][1] = ZERO
                        ELSE U[i][j][1] = Mul(U[i][j][0], u_o[i][j])
                     /\ IF v_o = Undef THEN U[i][j][2] = ZERO
                        ELSE U[i][j][2] = Mul(U[i][j][0], v_o[i][j])

\* an instance built from heights and velocities that are not 0 or 1
C15_Witness ==
    /\ op.name = "new" /\ QUANT >= 3
    /\ op.args[3] # Undef /\ op.args[4] # Undef /\ op.args[5] # Undef
    /\ U[1][1][0] = Num(2)
    /\ U[1][1][1] = Num(1) /\ op.args[4][1][1] = HALF
    /\ U[1][1][2] = Num(-2) /\ op.args[5][1][1] = Num(-1)

\* C16: no step and no plip changes QUANT, LENGTH, dd or g, and the grid
\* is QUANT x QUANT cells of 3 components before and after each of them.
C16_FrozenAfterConstruction ==
    [][/\ QUANT' = QUANT /\ LENGTH' = LENGTH /\ dd' = dd /\ g' = g
       /\ DOMAIN U = Idx(QUANT) /\ DOMAIN U' = Idx(QUANT)
       /\ \A i \in Idx(QUANT) :
            /\ DOMAIN U[i] = Idx(QUANT) /\ DOMAIN U'[i] = Idx(QUANT)
            /\ \A j \in Idx(QUANT) :
                 DOMAIN U[i][j] = 0..2 /\ DOMAIN U'[i][j] = 0..2]_vars

\* two steps and a plip have been made on a grid of 3 x 3 cells or more
C16_Witness ==
    /\ nsteps >= 2 /\ nplips >= 1 /\ QUANT >= 3
    /\ dd = Div(LENGTH, Num(QUANT))
    /\ DOMAIN U = Idx(QUANT) /\ U # U_old

\* C13: constructing SWE with Q <= 0, or with an n0, u0 or v0 that is not
\* Q x Q, raises an error and yields no instance.
C13_BadConfigFailsFast ==
    (op.name = "new"
     /\ \/ op.args[1] <= 0
        \/ Mismatched(op.args[3], op.args[1])
        \/ Mismatched(op.args[4], op.args[1])
        \/ Mismatched(op.args[5], op.args[1]))
    => op.ret = "throw"

\* C14: heightAt(x,y) and plip(i,j) with a coordinate outside 0..QUANT-1 raise
\* an error and leave the grid unchanged.
C14_OutOfRangeRejected ==
    (op.name \in {"heightAt", "plip"}
     /\ QUANT >= 1 /\ DOMAIN U_old = Idx(QUANT)
     /\ (op.i \notin Idx(QUANT) \/ op.j \notin Idx(QUANT)))
    => (op.ret = "throw" /\ U = U_old)

\* C17: everything step computes is computed from the grid as it was when
\* step was called: every face of both half-step arrays from the cells of that
\* grid on either side of it, and every new cell from the old cell and the four
\* faces around it; the grid the caller sees afterwards is that fresh output.
C17_StepReadsSnapshot ==
    op.name = "step" =>
        LET sf == Div(Mul(op.dt, HALF), dd)
            H == U_lax_horizontal
            V == U_lax_vertical
            Lo(k) == IF k = 0 THEN 0 ELSE k - 1
            Hi(k) == IF k = QUANT THEN QUANT - 1 ELSE k
        IN /\ \A ih \in 0..QUANT : \A jh \in Idx(QUANT) :
                LET lo == U_old[Lo(ih)][jh]
                    hi == U_old[Hi(ih)][jh]
                    Fhi == F(hi)
                    Flo == F(lo)
                    Lax(k) == Sub(Mul(HALF, Add(hi[k], lo[k])),
                                  Mul(sf, Sub(Fhi[k], Flo[k])))
                IN /\ H[ih][jh][0] = Lax(0)
                   /\ H[ih][jh][1] =
                        IF jh = 0 \/ jh = QUANT - 1 THEN ZERO ELSE Lax(1)
                   /\ H[ih][jh][2] =
                        IF ih = 0 \/ ih = QUANT THEN ZERO ELSE Lax(2)
           /\ \A iv \in Idx(QUANT) : \A jv \in 0..QUANT :
                LET lo == U_old[iv][Lo(jv)]
                    hi == U_old[iv][Hi(jv)]
                    Ghi == G(hi)
                    Glo == G(lo)
                    Lax(k) == Sub(Mul(HALF, Add(hi[k], lo[k])),
                                  Mul(sf, Sub(Ghi[k], Glo[k])))
                IN /\ V[iv][jv][0] = Lax(0)
                   /\ V[iv][jv][1] =
                        IF jv = 0 \/ jv = QUANT THEN ZERO ELSE Lax(1)
                   /\ V[iv][jv][2] =
                        IF iv = 0 \/ iv = QUANT - 1 THEN ZERO ELSE Lax(2)
           /\ \A i \in Idx(QUANT) : \A j \in Idx(QUANT) :
                LET FhiH == F(H[i + 1][j])
                    FloH == F(H[i][j])
                    GhiV == G(V[i][j + 1])
                    GloV == G(V[i][j])
                IN \A k \in 0..2 :
                     U[i][j][k] =
                       Sub(U_old[i][j][k],
                           Mul(Mul(sf, TWO), Add(Sub(FhiH[k], FloH[k]),
                                                 Sub(GhiV[k], GloV[k]))))

\* a second step in a row, on a grid whose edge cells move along their wall
C17_Witness ==
    /\ op.name = "step" /\ nsteps = 2 /\ QUANT >= 3 /\ GridFinite(U)
    /\ U_old[0][1][2] # ZERO /\ U_old[1][0][1] # ZERO
    /\ U # U_old

\* C12: in the variant of part_001, a step that finds a non-finite new height
\* and returns early leaves the grid (n, u, v) as it was before the call.
C12_CleanAbort ==
    (op.name = "step" /\ trace = <<"bad new guy!!">>) => U = U_old

\* C18: on the page of bathtub.js, with loop() called from outside at most
\* once, no animation-frame request is outstanding while plip runs, and at most
\* one is outstanding at any other time.
C18_PerturbOnlyWhenIdle ==
    /\ atPlip = {}
    /\ Cardinality(pending) <= 1

\* C20: on the page of bathtub.js, when some cell height is NaN, animate
\* returns without calling step and without requesting another frame, having
\* printed the fault; and from then on no call steps the system, clicks
\* included, and the NaN stays.
C20_HaltsOnInstability ==
    [][LET NaNHeight(UU) ==
               \E i \in Idx(QUANT), j \in Idx(QUANT) : IsNaN(UU[i][j][0])
       IN NaNHeight(U) =>
            /\ nsteps' = nsteps
            /\ NaNHeight(U')
            /\ ev' = "frame" =>
                 /\ U' = U
                 /\ issued' = issued
                 /\ pending' \subseteq pending
                 /\ trace' = <<"bad!">>]_vars

\* a click after the grid went bad restarted the loop, and the frame it
\* requested ran, printed the fault and requested nothing
C20_Witness ==
    /\ ev = "frame" /\ trace = <<"bad!">>
    /\ nplips = 2 /\ nsteps = 1 /\ op.name = "plip"
    /\ \E i \in Idx(QUANT), j \in Idx(QUANT) : IsNaN(U[i][j][0])
    /\ \A j \in Idx(QUANT) : ~IsNaN(U[0][j][0])
    /\ pending = {} /\ id = issued

\* C19: on the page of part_003, a click stops the running step timer before
\* it calls plip, so no timer is running while plip runs and at most one is
\* running after any sequence of clicks.
C19_TimerPausedAroundPlip ==
    /\ atPlip = {}
    /\ Cardinality(pending) <= 1

\* C21: a click at pointer offsets inside the canvas (0 <= offset < width
\* and height, which are LENGTH) passes plip grid coordinates i, j with
\* 0 <= i, j < QUANT.
C21_ClickInRange ==
    (op.name = "plip" /\ op.args # << >>
       /\ LessEq(ZERO, op.args[1]) /\ Less(op.args[1], LENGTH)
       /\ LessEq(ZERO, op.args[2]) /\ Less(op.args[2], LENGTH))
    => (op.i \in Idx(QUANT) /\ op.j \in Idx(QUANT))

\* a click in the last sixteenth of the last pixel of a canvas whose width is
\* no multiple of the number of cells lands in the last column and row
C21_Witness ==
    /\ op.name = "plip" /\ op.args = <<Sub(LENGTH, Rat(1, 16)), ZERO>>
    /\ QUANT = 4 /\ LENGTH = Num(15)
    /\ op.i = QUANT - 1 /\ op.j = 0
    /\ U # U_old

C24_StepIndicesInside ==
    (op.name = "step" /\ QUANT >= 1) =>
        /\ \A r \in GridReads(QUANT) :
             r[1] \in DOMAIN U_old /\ r[2] \in DOMAIN U_old[r[1]]
        /\ \A r \in HorizontalReads(QUANT) :
             /\ r[1] \in DOMAIN U_lax_horizontal
             /\ r[2] \in DOMAIN U_lax_horizontal[r[1]]
             /\ DOMAIN U_lax_horizontal[r[1]][r[2]] = 0..2
        /\ \A r \in VerticalReads(QUANT) :
             /\ r[1] \in DOMAIN U_lax_vertical
             /\ r[2] \in DOMAIN U_lax_vertical[r[1]]
             /\ DOMAIN U_lax_vertical[r[1]][r[2]] = 0..2

\* a step on the grid of a single cell has read the faces 0 and 1 in both
\* directions, and a step on the largest grid the last face of each array
C24_Witness ==
    /\ op.name = "step"
    /\ \/ /\ QUANT = 1
          /\ HorizontalReads(QUANT) = {<<0, 0>>, <<1, 0>>}
          /\ VerticalReads(QUANT) = {<<0, 0>>, <<0, 1>>}
          /\ DOMAIN U_lax_horizontal = 0..1
          /\ DOMAIN U_lax_vertical[0] = 0..1
       \/ /\ QUANT = MaxQ
          /\ <<QUANT, QUANT - 1>> \in HorizontalReads(QUANT)
          /\ <<QUANT - 1, QUANT>> \in VerticalReads(QUANT)
          /\ QUANT \in DOMAIN U_lax_horizontal
          /\ QUANT \in DOMAIN U_lax_vertical[QUANT - 1]

C27_SingleChain == Cardinality(ActiveChains) <= 1

\* C28: an instance constructed without initial arrays has a grid of
\* this.QUANT rows of this.QUANT cells, also when QUANT is omitted and
\* this.QUANT is the default; so heightAt(x, y) with 0 <= x, y < this.QUANT
\* finds its cell on the instance made with QUANT omitted.
C28_GridMatchesQuant ==
    /\ (/\ op.name = "new" /\ op.ret = "object"
        /\ op.args[3] = Undef /\ op.args[4] = Undef /\ op.args[5] = Undef) =>
           /\ DOMAIN U = Idx(QUANT)
           /\ \A i \in DOMAIN U : DOMAIN U[i] = Idx(QUANT)
    /\ (/\ op.name = "heightAt" /\ QUANT = DefaultQuant
        /\ op.i \in Idx(QUANT) /\ op.j \in Idx(QUANT)) =>
           op.ret = "number"

C30_ConwayNext ==
    /\ [](width >= 2 =>
            \A x \in Idx(width), y \in Idx(height) :
                neighbors(x, y) =
                    Cardinality({c \in Moore(x, y) : state[c[1]][c[2]]}))
    /\ [][(nsteps' # nsteps /\ width >= 2) =>
            /\ DOMAIN state' = Idx(width)
            /\ \A x \in Idx(width) :
                 /\ DOMAIN state'[x] = Idx(height)
                 /\ \A y \in Idx(height) :
                      LET n == Cardinality({c \in Moore(x, y) :
                                              state[c[1]][c[2]]})
                      IN state'[x][y] =
                           IF state[x][y] THEN n \in {2, 3} ELSE n = 3]_vars

\* next has made a board of three by three cells on which the cell in the
\* middle and a corner are alive and a cell on the bottom edge is dead, and
\* the cell in the middle has more live neighbours than a corner can have
C30_Witness ==
    /\ op.name = "next" /\ width = 3 /\ height = 3
    /\ state[1][1] /\ state[0][0] /\ ~state[1][2]
    /\ neighbors(1, 1) > 3 /\ neighbors(1, 2) > 0 /\ neighbors(2, 0) > 0

====
